---- MODULE Spec2Model ----
(***************************************************************************)
(* Model of src/cmq.py: the slide-deck extractor, the prompt composer, the *)
(* line classifier / PDF renderer and the end-to-end endpoint.             *)
(*                                                                         *)
(* Text is modelled as a sequence of one-character strings, so that the    *)
(* string tests of the code (startswith, indexing, strip, replace, in)     *)
(* are computed position by position as Python computes them.              *)
(***************************************************************************)
EXTENDS Integers, Sequences, FiniteSets, TLC

VARIABLES
    \* ---- create_professional_pdf (one call, line by line) ----
    content,      \* the generated text, as the list content.split('\n')
    metadata,     \* the metadata dict handed to the renderer
    idx,          \* index of the next line of the for loop
    in_list,      \* the in_list flag
    story,        \* the accumulated flowables
    breaks,       \* history: number of list-break spacers appended by the loop
    rpc,          \* position: "start" | "scan" | "fallback" | "done", or where an
                  \* exception left the function: "raised_block" | "raised_build"
    doc,          \* the document written to output_path, or NoDoc
    dropped,      \* history: fallback paragraphs whose construction raised and
                  \* was passed over by the bare except of lines 436-437
    \* ---- extract_text_with_structure ----
    deck,         \* the presentation: a sequence of slides, each a sequence of shapes
    extraction,   \* the returned dict, or NoVal
    \* ---- generate_targeted_study_material (prompt composition) ----
    request,      \* [weak_spots, material_type]
    prompt,       \* the composed prompt (its sections), or NoVal
    \* ---- generate_study_material_endpoint (concurrent calls) ----
    pc,           \* per call: position in the handler
    call,         \* per call: its locals
    clock,        \* wall clock, in whole seconds (datetime.now() at %S resolution)
    files,        \* the working directory: output_filename -> document
    hist,         \* per call: history, the steps the call has taken, in order
    GOOGLE_API_KEY \* whether the module-level API key is set (lines 25-31)

vars == <<content, metadata, idx, in_list, story, breaks, rpc, doc, dropped,
          deck, extraction, request, prompt, pc, call, clock, files, hist,
          GOOGLE_API_KEY>>

renderVars  == <<content, metadata, idx, in_list, story, breaks, rpc, doc, dropped>>
extractVars == <<deck, extraction>>
composeVars == <<request, prompt>>
endpointVars == <<pc, call, clock, files, hist, GOOGLE_API_KEY>>

NoVal == [none |-> TRUE]
NoDoc == [kind |-> "none"]

-----------------------------------------------------------------------------
(* Bounds *)

MaxLen   == 3     \* longest enumerated line, in characters
MaxLines == 3     \* most lines of a generated text built from the corpus
PageCap  == 2     \* flowables that fit on one page (stands for the frame height)

-----------------------------------------------------------------------------
(* Characters and Python string primitives *)

Whitespace == {" ", "\n"}
Digits     == {"0", "1", "2", "3", "4", "5", "6", "7", "8", "9"}
UpperCase ==
    <<"A", "B", "C", "D", "E", "F", "G", "H", "I", "J", "K", "L", "M", "N", "O", "P", "Q", "R", "S", "T", "U", "V", "W", "X", "Y", "Z">>
LowerCase ==
    <<"a", "b", "c", "d", "e", "f", "g", "h", "i", "j", "k", "l", "m", "n", "o", "p", "q", "r", "s", "t", "u", "v", "w", "x", "y", "z">>

\* the non-ASCII characters U+2022 (bullet) and U+2192 (arrow), each one character
BulletChar == "U+2022"
ArrowChar  == "U+2192"

\* str.lower(), one character
Lower(c) ==
    IF \E i \in 1..Len(UpperCase) : UpperCase[i] = c
    THEN LowerCase[CHOOSE i \in 1..Len(UpperCase) : UpperCase[i] = c]
    ELSE c

LowerStr(s) == [i \in 1..Len(s) |-> Lower(s[i])]

\* s[a:b] with 1-based inclusive positions; empty when a > b
Slice(s, a, b) == IF a > b THEN <<>> ELSE SubSeq(s, a, b)

\* str.strip()
RECURSIVE LStrip(_)
LStrip(s) == IF s # <<>> /\ Head(s) \in Whitespace THEN LStrip(Tail(s)) ELSE s

RECURSIVE RStrip(_)
RStrip(s) ==
    IF s # <<>> /\ s[Len(s)] \in Whitespace THEN RStrip(SubSeq(s, 1, Len(s) - 1)) ELSE s

Strip(s) == RStrip(LStrip(s))

\* str.startswith(prefix)
StartsWith(s, p) == Len(s) >= Len(p) /\ SubSeq(s, 1, Len(p)) = p

\* pattern in s
Contains(s, p) ==
    \E i \in 1..(Len(s) - Len(p) + 1) : SubSeq(s, i, i + Len(p) - 1) = p

\* s.replace(c, '') for a one-character c
RECURSIVE RemoveChar(_, _)
RemoveChar(s, c) ==
    IF s = <<>> THEN <<>>
    ELSE IF Head(s) = c THEN RemoveChar(Tail(s), c)
    ELSE <<Head(s)>> \o RemoveChar(Tail(s), c)

\* xml.sax.saxutils.escape
EscapeChar(c) ==
    CASE c = "&" -> <<"&amp;">>
      [] c = "<" -> <<"&lt;">>
      [] c = ">" -> <<"&gt;">>
      [] OTHER   -> <<c>>

RECURSIVE escape(_)
escape(s) == IF s = <<>> THEN <<>> ELSE EscapeChar(Head(s)) \o escape(Tail(s))

\* length of the longest run of non-'*' characters of s starting at position i
RECURSIVE RunLen(_, _)
RunLen(s, i) == IF i > Len(s) \/ s[i] = "*" THEN 0 ELSE 1 + RunLen(s, i + 1)

IsStar(s, i) == i >= 1 /\ i <= Len(s) /\ s[i] = "*"

\* re.sub(r'\*\*([^*]+)\*\*', r'<b>\1</b>', s), scanning from position i
RECURSIVE SubBold(_, _)
SubBold(s, i) ==
    IF i > Len(s) THEN <<>>
    ELSE LET k == RunLen(s, i + 2) IN
         IF /\ IsStar(s, i) /\ IsStar(s, i + 1) /\ k >= 1
            /\ IsStar(s, i + 2 + k) /\ IsStar(s, i + 3 + k)
         THEN <<"<b>">> \o SubSeq(s, i + 2, i + 1 + k) \o <<"</b>">>
              \o SubBold(s, i + 4 + k)
         ELSE <<s[i]>> \o SubBold(s, i + 1)

\* re.sub(r'(?<!\*)\*([^*]+)\*(?!\*)', r'<i>\1</i>', s), scanning from position i
RECURSIVE SubItalic(_, _)
SubItalic(s, i) ==
    IF i > Len(s) THEN <<>>
    ELSE LET k == RunLen(s, i + 1) IN
         IF /\ IsStar(s, i) /\ ~IsStar(s, i - 1) /\ k >= 1
            /\ IsStar(s, i + 1 + k) /\ ~IsStar(s, i + 2 + k)
         THEN <<"<i>">> \o SubSeq(s, i + 1, i + k) \o <<"</i>">>
              \o SubItalic(s, i + 2 + k)
         ELSE <<s[i]>> \o SubItalic(s, i + 1)

convert_markdown_to_html(text) == SubItalic(SubBold(escape(text), 1), 1)

-----------------------------------------------------------------------------
(* create_professional_pdf: the classification loop (lines 366-417) *)

Flowable(kind, style, text) == [kind |-> kind, style |-> style, text |-> text]

Spacer(h) == Flowable("Spacer", h, <<>>)

KeyTakeaway == <<"k", "e", "y", " ", "t", "a", "k", "e", "a", "w", "a", "y">>
ImportantColon == <<"i", "m", "p", "o", "r", "t", "a", "n", "t", ":">>

\* line 394: the bullet test
IsBullet(line) ==
    \/ StartsWith(line, <<BulletChar>>) \/ StartsWith(line, <<"-">>) \/ StartsWith(line, <<ArrowChar>>)
    \/ (StartsWith(line, <<"*">>) /\ Len(line) > 1 /\ line[2] = " ")

\* line 403: the numbered-list test (line[0], line[1], line[1:3] are 0-based in the code)
IsNumbered(line) ==
    /\ Len(line) > 2
    /\ line[1] \in Digits
    /\ \/ line[2] = "."
       \/ (Len(line) > 3 /\ SubSeq(line, 2, 3) = <<".", " ">>)

\* a mis-ordered variant: the bullet test accepts any leading asterisk
ClassifyLineAnyStar(line) ==
    IF StartsWith(line, <<"#", "#", "#">>) THEN "SubHeader"
    ELSE IF StartsWith(line, <<"#", "#">>) THEN "SectionHeader"
    ELSE IF StartsWith(line, <<"#">>) THEN "DocumentTitle"
    ELSE IF Contains(LowerStr(line), KeyTakeaway) \/ Contains(LowerStr(line), ImportantColon)
         THEN "KeyPoint"
    ELSE IF IsBullet(line) \/ StartsWith(line, <<"*">>) THEN "BulletItem"
    ELSE IF IsNumbered(line) THEN "NumberedItem"
    ELSE "Paragraph"

\* the if/elif chain of lines 378-409, on a trimmed non-blank line
ClassifyLine(line) ==
    IF StartsWith(line, <<"#", "#", "#">>) THEN "SubHeader"
    ELSE IF StartsWith(line, <<"#", "#">>) THEN "SectionHeader"
    ELSE IF StartsWith(line, <<"#">>) THEN "DocumentTitle"
    ELSE IF Contains(LowerStr(line), KeyTakeaway) \/ Contains(LowerStr(line), ImportantColon)
         THEN "KeyPoint"
    ELSE IF IsBullet(line) THEN "BulletItem"
    ELSE IF IsNumbered(line) THEN "NumberedItem"
    ELSE "Paragraph"

\* the style each branch passes to Paragraph(...)
StyleOf(kind) ==
    CASE kind = "SubHeader"     -> "SubHeader"
      [] kind = "SectionHeader" -> "SectionHeader"
      [] kind = "DocumentTitle" -> "CustomTitle"
      [] kind = "KeyPoint"      -> "KeyPoint"
      [] kind = "BulletItem"    -> "BulletText"
      [] kind = "NumberedItem"  -> "BulletText"
      [] OTHER                  -> "NormalText"

\* the text each branch passes to Paragraph(...)
PayloadOf(kind, line) ==
    CASE kind \in {"SubHeader", "SectionHeader", "DocumentTitle"} ->
            convert_markdown_to_html(Strip(RemoveChar(line, "#")))
      [] kind = "BulletItem" ->
            <<BulletChar, " ">> \o
            (IF StartsWith(line, <<"*">>)
             THEN convert_markdown_to_html(Strip(Slice(line, 3, Len(line))))
             ELSE convert_markdown_to_html(Strip(Slice(line, 2, Len(line)))))
      [] OTHER -> convert_markdown_to_html(line)

\* line 416: the text of the retry of a paragraph whose construction raised
CleanPayload(line) == escape(RemoveChar(RemoveChar(line, "*"), "#"))

\* The loop's state: the story, in_list, the number of list-breaks appended, and
\* whether an exception left the loop (and with it create_professional_pdf).
LoopState(s, l, b, r) == [story |-> s, in_list |-> l, breaks |-> b, raised |-> r]

\* a variant in which a blank line emits the list-break and leaves in_list set
LoopBodyKeepsList(st, raw, raises, raises2) ==
    LET line == Strip(raw)
        kind == ClassifyLine(line)
    IN  IF line = <<>> THEN
            IF st.in_list
            THEN LoopState(Append(st.story, Spacer("6")), TRUE, st.breaks + 1, FALSE)
            ELSE st
        ELSE IF kind = "Paragraph" THEN
            \* lines 412-417: the only construction inside a try
            IF ~raises
            THEN LoopState(Append(st.story, Flowable(kind, StyleOf(kind), PayloadOf(kind, line))),
                           st.in_list, st.breaks, FALSE)
            ELSE IF ~raises2
            THEN LoopState(Append(st.story, Flowable(kind, StyleOf(kind), CleanPayload(line))),
                           st.in_list, st.breaks, FALSE)
            ELSE LoopState(st.story, st.in_list, st.breaks, TRUE)
        ELSE
            \* lines 378-406: in_list is set before the block is constructed
            LET l == IF kind \in {"BulletItem", "NumberedItem"} THEN TRUE ELSE st.in_list
            IN  IF raises
                THEN LoopState(st.story, l, st.breaks, TRUE)
                ELSE LoopState(Append(st.story, Flowable(kind, StyleOf(kind), PayloadOf(kind, line))),
                               l, st.breaks, FALSE)

\* One iteration of the for loop (lines 369-417) on the raw line `raw`.
\* ReportLab's Paragraph constructor parses its text and may raise: `raises` says
\* whether the construction of this line's block raises, `raises2` whether the
\* construction of the cleaned retry (line 417) raises too.
LoopBody(st, raw, raises, raises2) ==
    LET line == Strip(raw)
        kind == ClassifyLine(line)
    IN  IF line = <<>> THEN
            IF st.in_list
            THEN LoopState(Append(st.story, Spacer("6")), FALSE, st.breaks + 1, FALSE)
            ELSE st
        ELSE IF kind = "Paragraph" THEN
            \* lines 412-417: the only construction inside a try
            IF ~raises
            THEN LoopState(Append(st.story, Flowable(kind, StyleOf(kind), PayloadOf(kind, line))),
                           st.in_list, st.breaks, FALSE)
            ELSE IF ~raises2
            THEN LoopState(Append(st.story, Flowable(kind, StyleOf(kind), CleanPayload(line))),
                           st.in_list, st.breaks, FALSE)
            ELSE LoopState(st.story, st.in_list, st.breaks, TRUE)
        ELSE
            \* lines 378-406: in_list is set before the block is constructed
            LET l == IF kind \in {"BulletItem", "NumberedItem"} THEN TRUE ELSE st.in_list
            IN  IF raises
                THEN LoopState(st.story, l, st.breaks, TRUE)
                ELSE LoopState(Append(st.story, Flowable(kind, StyleOf(kind), PayloadOf(kind, line))),
                               l, st.breaks, FALSE)

-----------------------------------------------------------------------------
(* create_professional_pdf: the story head, the two builds, the page canvas *)

TitleBlock == Flowable("Title", "CustomTitle", <<"Personalized Study Material">>)

\* ', '.join(items)
RECURSIVE JoinComma(_)
JoinComma(items) ==
    IF items = <<>> THEN <<>>
    ELSE IF Len(items) = 1 THEN Head(items)
    ELSE Head(items) \o <<",", " ">> \o JoinComma(Tail(items))

\* metadata['weak_spots'][:3]
FirstThree(ws) == SubSeq(ws, 1, IF Len(ws) < 3 THEN Len(ws) ELSE 3)

\* lines 358-362: the metadata paragraph
MetaBlock(md) ==
    Flowable("Metadata", "Metadata",
             <<"Generated on ", md.date, "Material Type: ", md.material_type>>
             \o (IF md.weak_spots # <<>>
                 THEN <<"Focus Areas: ">> \o JoinComma(FirstThree(md.weak_spots))
                 ELSE <<>>))

\* lines 352-363
InitialStory(md) == <<TitleBlock, MetaBlock(md), Spacer("20")>>

\* The page flow of doc.build: flowables fill a page in order, PageCap to a page.
RECURSIVE Paginate(_)
Paginate(st) ==
    IF st = <<>> THEN <<>>
    ELSE IF Len(st) <= PageCap THEN <<st>>
    ELSE <<SubSeq(st, 1, PageCap)>> \o Paginate(SubSeq(st, PageCap + 1, Len(st)))

Page(body, footer, header) == [body |-> body, footer |-> footer, header |-> header]

\* NumberedCanvas.__init__ (lines 222-224); _pageNumber starts at 1 in canvas.Canvas
NumberedCanvasNew == [_pageNumber |-> 1, _saved_page_states |-> <<>>, body |-> <<>>]

\* NumberedCanvas.showPage (lines 226-228): save the page state, start the next page
NC_showPage(cv) ==
    [cv EXCEPT !._saved_page_states =
                   Append(@, [_pageNumber |-> cv._pageNumber, body |-> cv.body]),
               !._pageNumber = @ + 1,
               !.body = <<>>]

\* NumberedCanvas.save with draw_page_number (lines 230-248): every saved page is
\* restored, stamped with its own number and the number of saved pages, and emitted
NC_save(cv, md) ==
    LET num_pages == Len(cv._saved_page_states)
    IN  [i \in 1..num_pages |->
            LET state == cv._saved_page_states[i]
            IN  Page(state.body, <<state._pageNumber, num_pages>>, md.material_type)]

\* doc.build(story, canvasmaker=NumberedCanvas): draw each page, showPage, then save
RECURSIVE NC_drawAll(_, _)
NC_drawAll(cv, pages) ==
    IF pages = <<>> THEN cv
    ELSE NC_drawAll(NC_showPage([cv EXCEPT !.body = Head(pages)]), Tail(pages))

BuildNumbered(st, md) ==
    [kind |-> "structured", pages |-> NC_save(NC_drawAll(NumberedCanvasNew, Paginate(st)), md)]

\* doc.build(story) (line 439): the default canvas emits each page as drawn, unstamped
BuildPlain(st) ==
    LET pages == Paginate(st)
    IN  [kind |-> "fallback", pages |-> [i \in 1..Len(pages) |-> Page(pages[i], <<>>, "")]]

\* '\n'.join(lines): the generated text as one string
RECURSIVE JoinLines(_)
JoinLines(ls) ==
    IF ls = <<>> THEN <<>>
    ELSE IF Len(ls) = 1 THEN Head(ls)
    ELSE Head(ls) \o <<"\n">> \o JoinLines(Tail(ls))

\* str.split('\n\n'): cur is the piece being read
RECURSIVE SplitBlank(_, _)
SplitBlank(s, cur) ==
    IF s = <<>> THEN <<cur>>
    ELSE IF Len(s) >= 2 /\ s[1] = "\n" /\ s[2] = "\n"
         THEN <<cur>> \o SplitBlank(SubSeq(s, 3, Len(s)), <<>>)
    ELSE SplitBlank(Tail(s), Append(cur, Head(s)))

\* a variant that strips only the asterisks
CleanContentStarOnly(ls) == RemoveChar(JoinLines(ls), "*")

\* re.sub(r'[*#]', '', content) (line 430)
CleanContent(ls) == RemoveChar(RemoveChar(JoinLines(ls), "*"), "#")

\* lines 425-437: the fallback story; `skip` holds the paragraphs whose
\* construction raised and was passed over by the bare except
RECURSIVE FallbackParas(_, _, _)
FallbackParas(paras, i, skip) ==
    IF i > Len(paras) THEN <<>>
    ELSE (IF Strip(paras[i]) # <<>> /\ i \notin skip
          THEN <<Flowable("Paragraph", "NormalText", escape(Strip(paras[i]))), Spacer("12")>>
          ELSE <<>>)
         \o FallbackParas(paras, i + 1, skip)

FallbackStory(ls, skip) ==
    <<TitleBlock, Spacer("20")>> \o FallbackParas(SplitBlank(CleanContent(ls), <<>>), 1, skip)

NumParas(ls) == Len(SplitBlank(CleanContent(ls), <<>>))

\* lines 432-437: the paragraphs that were to be constructed and raised
NumDropped(ls, skip) ==
    LET paras == SplitBlank(CleanContent(ls), <<>>)
    IN  Cardinality({i \in skip : i <= Len(paras) /\ Strip(paras[i]) # <<>>})

-----------------------------------------------------------------------------
(* create_professional_pdf as one call: the renderer's result for a text *)

\* faults: what ReportLab does on this call. raises, raises2: the lines whose block
\* construction (and cleaned retry) raises; build: doc.build of the structured story
\* raises; skip: fallback paragraphs whose construction raises; plain: the fallback
\* doc.build raises.
RECURSIVE RunLoop(_, _, _, _)
RunLoop(st, ls, i, faults) ==
    IF i > Len(ls) \/ st.raised THEN st
    ELSE RunLoop(LoopBody(st, ls[i], i \in faults.raises, i \in faults.raises2),
                 ls, i + 1, faults)

create_professional_pdf(ls, md, faults) ==
    LET st == RunLoop(LoopState(InitialStory(md), FALSE, 0, FALSE), ls, 1, faults)
    IN  IF st.raised THEN [raised |-> TRUE, at |-> "block", doc |-> NoDoc]
        ELSE IF ~faults.build
             THEN [raised |-> FALSE, at |-> "", doc |-> BuildNumbered(st.story, md)]
        ELSE IF ~faults.plain
             THEN [raised |-> FALSE, at |-> "",
                   doc |-> BuildPlain(FallbackStory(ls, faults.skip))]
        ELSE [raised |-> TRUE, at |-> "build", doc |-> NoDoc]

-----------------------------------------------------------------------------
(* Inputs of the renderer *)

Alphabet == {"#", "*", " ", "-", "1", "0", ".", "a"}

RECURSIVE SeqsUpTo(_, _)
SeqsUpTo(S, n) ==
    IF n = 0 THEN {<<>>}
    ELSE LET shorter == SeqsUpTo(S, n - 1)
         IN  shorter \cup {Append(s, x) : s \in {t \in shorter : Len(t) = n - 1}, x \in S}

\* the lines of at most n characters
ShortLines(n) == SeqsUpTo(Alphabet, n)

LineNumbered == <<"1", ".", " ", "D", "o", " ", "t", "h", "e", " ", "t", "h", "i", "n", "g">>  \* 1. Do the thing
LineStarBullet == <<"*", " ", "f", "l", "o", "a", "t", "i", "n", "g", " ", "n", "o", "t", "e">>  \* * floating note
LineEmphasis == <<"*", "e", "m", "p", "h", "a", "s", "i", "s", "*">>  \* *emphasis*
LineTenItem == <<"1", "0", ".", " ", "i", "t", "e", "m">>  \* 10. item
LineKeyTakeaway == <<"*", "*", "K", "e", "y", " ", "T", "a", "k", "e", "a", "w", "a", "y", ":", "*", "*", " ", "x">>  \* **Key Takeaway:** x
LineImportant == <<"I", "M", "P", "O", "R", "T", "A", "N", "T", ":", " ", "y">>  \* IMPORTANT: y
LineSection == <<"#", "#", " ", "T", "o", "p", "i", "c">>  \* ## Topic
LineSub == <<"#", "#", "#", " ", "P", "a", "r", "t">>  \* ### Part
LineTitle == <<"#", " ", "T", "i", "t", "l", "e">>  \* # Title
LineDash == <<"-", " ", "i", "t", "e", "m", " ", "o", "n", "e">>  \* - item one
LineDot == <<BulletChar, " ", "d", "o", "t">>  \* U+2022 dot
LineArrow == <<ArrowChar, " ", "n", "e", "x", "t">>  \* U+2192 next
LinePlain == <<"p", "l", "a", "i", "n", " ", "*", "*", "b", "o", "l", "d", "*", "*", " ", "t", "e", "x", "t">>  \* plain **bold** text
Corpus == {LineNumbered, LineStarBullet, LineEmphasis, LineTenItem, LineKeyTakeaway,
           LineImportant, LineSection, LineSub, LineTitle, LineDash, LineDot,
           LineArrow, LinePlain}

\* the lines multi-line texts are built from
TextLines == {<<>>, LineDash, LineNumbered, LineSection, LineEmphasis}

\* the texts: one line of at most n characters or of the corpus, or up to m lines
Contents(n, m) ==
    {<<l>> : l \in ShortLines(n) \cup Corpus} \cup (SeqsUpTo(TextLines, m) \ {<<>>})

Metadatas ==
    {[date |-> "DATE", material_type |-> "Point-wise Structure", weak_spots |-> <<<<"w", "1">>>>],
     [date |-> "DATE", material_type |-> "Study Notes", weak_spots |-> <<>>]}

-----------------------------------------------------------------------------
(* SpecRender: one call of create_professional_pdf, line by line *)

IdleExtract  == deck = <<>> /\ extraction = NoVal
IdleCompose  == request = NoVal /\ prompt = NoVal
IdleEndpoint ==
    /\ pc = <<>> /\ call = <<>> /\ clock = 0 /\ files = <<>> /\ hist = <<>>
    /\ GOOGLE_API_KEY = TRUE
IdleRender   ==
    /\ content = <<>> /\ metadata = NoVal /\ idx = 0 /\ in_list = FALSE
    /\ story = <<>> /\ breaks = 0 /\ rpc = "idle" /\ doc = NoDoc /\ dropped = 0

InitRender ==
    /\ content \in Contents(MaxLen, MaxLines)
    /\ metadata \in Metadatas
    /\ idx = 0
    /\ in_list = FALSE
    /\ story = <<>>
    /\ breaks = 0
    /\ rpc = "start"
    /\ doc = NoDoc
    /\ dropped = 0
    /\ IdleExtract /\ IdleCompose /\ IdleEndpoint

\* lines 352-367
RenderBegin ==
    /\ rpc = "start"
    /\ story' = InitialStory(metadata)
    /\ in_list' = FALSE
    /\ idx' = 1
    /\ rpc' = "scan"
    /\ UNCHANGED <<content, metadata, breaks, doc, dropped>>
    /\ UNCHANGED <<extractVars, composeVars, endpointVars>>

\* lines 369-417: one iteration of the loop
ScanLine ==
    /\ rpc = "scan"
    /\ idx <= Len(content)
    /\ \E raises \in BOOLEAN, raises2 \in BOOLEAN :
          LET st == LoopBody(LoopState(story, in_list, breaks, FALSE),
                             content[idx], raises, raises2)
          IN  /\ story' = st.story
              /\ in_list' = st.in_list
              /\ breaks' = st.breaks
              /\ rpc' = IF st.raised THEN "raised_block" ELSE "scan"
              /\ idx' = IF st.raised THEN idx ELSE idx + 1
    /\ UNCHANGED <<content, metadata, doc, dropped>>
    /\ UNCHANGED <<extractVars, composeVars, endpointVars>>

\* lines 420-422: doc.build with the numbered canvas, or the jump to the handler
BuildStructured ==
    /\ rpc = "scan"
    /\ idx > Len(content)
    /\ \E fails \in BOOLEAN :
          IF fails
          THEN rpc' = "fallback" /\ doc' = doc
          ELSE rpc' = "done" /\ doc' = BuildNumbered(story, metadata)
    /\ UNCHANGED <<content, metadata, idx, in_list, story, breaks, dropped>>
    /\ UNCHANGED <<extractVars, composeVars, endpointVars>>

\* lines 423-439: the except branch
BuildFallback ==
    /\ rpc = "fallback"
    /\ \E skip \in SUBSET (1..NumParas(content)), fails \in BOOLEAN :
          /\ story' = FallbackStory(content, skip)
          /\ dropped' = NumDropped(content, skip)
          /\ IF fails
             THEN rpc' = "raised_build" /\ doc' = doc
             ELSE rpc' = "done" /\ doc' = BuildPlain(story')
    /\ UNCHANGED <<content, metadata, idx, in_list, breaks>>
    /\ UNCHANGED <<extractVars, composeVars, endpointVars>>

NextRender == RenderBegin \/ ScanLine \/ BuildStructured \/ BuildFallback

SpecRender == InitRender /\ [][NextRender]_vars

-----------------------------------------------------------------------------
(* SpecFallback: the same call, on texts of blank, markup-only and plain lines *)

MaxBlockLines == 4     \* most lines of a text built from FallbackLines

\* an empty line, a whitespace-only line, a markup-only line, a line of text
FallbackLines == {<<>>, <<" ">>, <<"#">>, LineEmphasis}

FallbackTexts(m) == SeqsUpTo(FallbackLines, m) \ {<<>>}

InitFallback ==
    /\ content \in FallbackTexts(MaxBlockLines)
    /\ metadata \in Metadatas
    /\ idx = 0
    /\ in_list = FALSE
    /\ story = <<>>
    /\ breaks = 0
    /\ rpc = "start"
    /\ doc = NoDoc
    /\ dropped = 0
    /\ IdleExtract /\ IdleCompose /\ IdleEndpoint

SpecFallback == InitFallback /\ [][NextRender]_vars

-----------------------------------------------------------------------------
(* SpecList: the same call, on texts of list items, blank lines and paragraphs *)

MaxListLines == 4     \* most lines of a text built from ListLines

\* an empty line, a whitespace-only line, a bullet, a numbered item, a paragraph
ListDash     == <<"-", " ", "a">>
ListNumbered == <<"1", ".", " ", "a">>
ListPlain    == <<"a">>
ListLines == {<<>>, <<" ">>, ListDash, ListNumbered, ListPlain}

ListTexts(m) == SeqsUpTo(ListLines, m) \ {<<>>}

InitList ==
    /\ content \in ListTexts(MaxListLines)
    /\ metadata \in Metadatas
    /\ idx = 0
    /\ in_list = FALSE
    /\ story = <<>>
    /\ breaks = 0
    /\ rpc = "start"
    /\ doc = NoDoc
    /\ dropped = 0
    /\ IdleExtract /\ IdleCompose /\ IdleEndpoint

SpecList == InitList /\ [][NextRender]_vars

-----------------------------------------------------------------------------
(* extract_text_with_structure (lines 89-126) *)

MaxSlides == 2    \* most slides of a deck
MaxShapes == 3    \* most shapes of a deck, over all its slides

\* A shape: whether it carries a text frame, whether it is the slide's title
\* placeholder (slide.shapes.title), and the texts of its paragraphs.
Shape(htf, title, paras) == [has_text_frame |-> htf, is_title |-> title, paragraphs |-> paras]

\* shape.text: the paragraphs joined by newlines
ShapeText(shape) == JoinLines(shape.paragraphs)

\* lines 110-112: the non-blank paragraphs of a shape, trimmed
RECURSIVE StrippedParagraphs(_)
StrippedParagraphs(paras) ==
    IF paras = <<>> THEN <<>>
    ELSE (IF Strip(Head(paras)) # <<>> THEN <<Strip(Head(paras))>> ELSE <<>>)
         \o StrippedParagraphs(Tail(paras))

SlideText(n, title, cont) == [slide_number |-> n, title |-> title, content |-> cont]

\* lines 102-112: the loop over the shapes of slide number slide_num
RECURSIVE ScanShapes(_, _, _)
ScanShapes(shapes, slide_num, slide_text) ==
    IF shapes = <<>> THEN slide_text
    ELSE LET shape == Head(shapes)
         IN  IF ~shape.has_text_frame
             THEN ScanShapes(Tail(shapes), slide_num, slide_text)
             ELSE IF shape.is_title \/ slide_num = 1
             THEN ScanShapes(Tail(shapes), slide_num,
                             [slide_text EXCEPT !.title = ShapeText(shape)])
             ELSE ScanShapes(Tail(shapes), slide_num,
                             [slide_text EXCEPT !.content =
                                  @ \o StrippedParagraphs(shape.paragraphs)])

\* lines 96-112
ExtractSlide(slide, slide_num) == ScanShapes(slide, slide_num, SlideText(slide_num, <<>>, <<>>))

\* a variant that keeps only titled slides
RetainedTitleOnly(slide_text) == slide_text.title # <<>>

\* line 114: the slide is appended to slides_content
Retained(slide_text) == slide_text.title # <<>> \/ slide_text.content # <<>>

\* lines 95-115
RECURSIVE SlidesContent(_, _)
SlidesContent(slides, slide_num) ==
    IF slide_num > Len(slides) THEN <<>>
    ELSE LET slide_text == ExtractSlide(slides[slide_num], slide_num)
         IN  (IF Retained(slide_text) THEN <<slide_text>> ELSE <<>>)
             \o SlidesContent(slides, slide_num + 1)

\* line 121: f"Slide {n}: {title}\n" + "\n".join(content); the words "Slide " and
\* the number are one token each
SlideBlock(st) ==
    <<"Slide ", ToString(st.slide_number), ":", " ">> \o st.title \o <<"\n">> \o JoinLines(st.content)

\* lines 120-123
FullText(slides_content) ==
    JoinLines([i \in 1..Len(slides_content) |-> SlideBlock(slides_content[i])])

\* lines 117-124
extract_text_with_structure(presentation) ==
    LET slides_content == SlidesContent(presentation, 1)
    IN  [total_slides |-> Len(presentation),
         slides |-> slides_content,
         full_text |-> FullText(slides_content)]

\* Inputs: a picture, title placeholders, and text boxes
Shapes ==
    {Shape(FALSE, FALSE, <<>>),
     Shape(TRUE, TRUE, <<<<"T">>>>),
     Shape(TRUE, TRUE, <<<<>>>>),
     Shape(TRUE, TRUE, <<<<" ">>>>),
     Shape(TRUE, FALSE, <<<<"A">>>>),
     Shape(TRUE, FALSE, <<<<" ">>>>),
     Shape(TRUE, FALSE, <<<<"A">>, <<" ", "B", " ">>>>)}

\* the slides of at most k shapes; a slide has at most one title placeholder
SlidesUpTo(k) ==
    {sl \in SeqsUpTo(Shapes, k) :
        Cardinality({i \in 1..Len(sl) : sl[i].is_title}) <= 1}

\* the decks of exactly n slides and at most k shapes in all
RECURSIVE DecksOf(_, _)
DecksOf(n, k) ==
    IF n = 0 THEN {<<>>}
    ELSE UNION {{<<sl>> \o d : d \in DecksOf(n - 1, k - Len(sl))} : sl \in SlidesUpTo(k)}

\* the decks of at most n slides and at most k shapes
Decks(n, k) == UNION {DecksOf(m, k) : m \in 0..n}

InitExtract ==
    /\ deck \in Decks(MaxSlides, MaxShapes)
    /\ extraction = NoVal
    /\ IdleRender /\ IdleCompose /\ IdleEndpoint

Extract ==
    /\ extraction = NoVal
    /\ extraction' = extract_text_with_structure(deck)
    /\ UNCHANGED <<deck, renderVars, composeVars, endpointVars>>

NextExtract == Extract

SpecExtract == InitExtract /\ [][NextExtract]_vars

-----------------------------------------------------------------------------
(* generate_targeted_study_material: the prompt (lines 128-206) *)

MaxSpots == 2     \* most entries of a weak_spots list

MaterialKeys ==
    {"comprehensive", "summarized", "pointwise", "prerequisite", "problem_solving", "visual_learning", "exam_focused"}

\* lines 49-85: the catalog, for key \in MaterialKeys
MATERIAL_TYPES(key) ==
    IF key = "comprehensive" THEN
        [name |-> "Comprehensive Study Notes",
         description |-> "Detailed explanations covering all aspects",
         prompt_modifier |->
            "Create extremely detailed and comprehensive notes with thorough explanations, multiple examples, and deep conceptual understanding."]
    ELSE     IF key = "summarized" THEN
        [name |-> "Summarized Key Points",
         description |-> "Concise summary focusing on essential concepts",
         prompt_modifier |->
            "Create a concise summary that captures only the most essential information and key takeaways. Be brief but complete."]
    ELSE     IF key = "pointwise" THEN
        [name |-> "Point-wise Structure",
         description |-> "Bullet points for easy memorization",
         prompt_modifier |->
            "Structure everything in clear bullet points and numbered lists. Make it easy to scan and memorize. Use short, impactful statements."]
    ELSE     IF key = "prerequisite" THEN
        [name |-> "Prerequisite-Focused",
         description |-> "Emphasizes foundational concepts",
         prompt_modifier |->
            "Focus heavily on prerequisite knowledge and foundational concepts. Build from basics to advanced. Include background information that students might be missing."]
    ELSE     IF key = "problem_solving" THEN
        [name |-> "Problem-Solving Oriented",
         description |-> "Focus on practical applications and exercises",
         prompt_modifier |->
            "Emphasize problem-solving techniques, worked examples, practice problems, and step-by-step solutions. Include common mistakes to avoid."]
    ELSE     IF key = "visual_learning" THEN
        [name |-> "Visual Learning Guide",
         description |-> "Structured for visual learners with diagrams descriptions",
         prompt_modifier |->
            "Structure content for visual learners. Describe concepts that would benefit from diagrams, flowcharts, and mind maps. Use analogies and visual metaphors."]
    ELSE 
        [name |-> "Exam Preparation",
         description |-> "Tailored for test preparation",
         prompt_modifier |->
            "Focus on exam-relevant content, important formulas, frequently asked questions, and exam tips. Highlight what's most likely to appear in tests."]

\* line 143: MATERIAL_TYPES.get(material_type, MATERIAL_TYPES["comprehensive"])
MaterialConfig(material_type) ==
    IF material_type \in MaterialKeys THEN MATERIAL_TYPES(material_type)
    ELSE MATERIAL_TYPES("comprehensive")

\* line 489: MATERIAL_TYPES.get(material_type, {}).get('name', 'Study Notes')
MetadataMaterialType(material_type) ==
    IF material_type \in MaterialKeys THEN MATERIAL_TYPES(material_type).name
    ELSE "Study Notes"

\* lines 164-168 and 177: difficulty_instructions.get(difficulty_level, "")
DifficultyInstructions(level) ==
    CASE level = "beginner" ->
            "Use simple language, avoid jargon, explain everything from basics."
      [] level = "intermediate" ->
            "Balance between foundational concepts and advanced topics."
      [] level = "advanced" ->
            "Include complex concepts, theoretical depth, and advanced applications."
      [] OTHER -> ""

\* line 151: ', '.join([f'"{spot}"' for spot in weak_spots if spot.strip()])
RECURSIVE QuotedSpots(_, _)
QuotedSpots(spots, first) ==
    IF spots = <<>> THEN <<>>
    ELSE IF Strip(Head(spots)) = <<>> THEN QuotedSpots(Tail(spots), first)
    ELSE (IF first THEN <<>> ELSE <<",", " ">>)
         \o <<"\"">> \o Head(spots) \o <<"\"">> \o QuotedSpots(Tail(spots), FALSE)

WeakSpotsHeading == "CRITICAL STUDENT WEAK SPOTS:"

\* line 147: weak_spots and any(weak_spots); a string is true when it is not empty
HasWeakSpots(weak_spots) ==
    weak_spots # <<>> /\ \E i \in 1..Len(weak_spots) : weak_spots[i] # <<>>

\* lines 146-161
WeakSpotsText(weak_spots) ==
    IF HasWeakSpots(weak_spots)
    THEN <<"\n", WeakSpotsHeading, "\n",
           "The student particularly struggles with the following concepts:", "\n">>
         \o QuotedSpots(weak_spots, TRUE)
         \o <<"\n", "IMPORTANT INSTRUCTIONS FOR WEAK SPOTS:", "\n",
              "1. Provide EXTRA detailed explanations for these topics", "\n",
              "2. Include multiple examples for each weak spot", "\n",
              "3. Break down complex concepts into simpler steps", "\n",
              "4. Explain prerequisites needed to understand these topics", "\n",
              "5. Include common misconceptions and clarifications", "\n",
              "6. Add practice questions specifically targeting these areas", "\n",
              "7. Use analogies and real-world applications", "\n">>
    ELSE <<>>

LengthHeading == "OUTPUT LENGTH RESTRICTIONS:"

\* lines 170-206: the prompt, as the sequence of its pieces; the interpolated
\* texts are spliced in character by character
ComposePrompt(ppt_content, weak_spots, material_type, difficulty_level, additional_instructions) ==
    LET material_config == MaterialConfig(material_type)
        weak_spots_text == WeakSpotsText(weak_spots)
    IN  <<"You are an expert educational content creator. Generate high-quality study material based on the PowerPoint content provided.",
          "\n", "MATERIAL TYPE: ", material_config.name,
          "\n", "STYLE INSTRUCTION: ", material_config.prompt_modifier,
          "\n", "DIFFICULTY LEVEL: ", difficulty_level,
          "\n", DifficultyInstructions(difficulty_level), "\n">>
        \o weak_spots_text
        \o <<"\n", "ADDITIONAL TUTOR INSTRUCTIONS:", "\n",
             IF additional_instructions # "" THEN additional_instructions ELSE "None provided",
             "\n", "POWERPOINT CONTENT:",
             "\n", "Total Slides: ", ToString(ppt_content.total_slides),
             "\n", "Content:", "\n">>
        \o ppt_content.full_text
        \o <<"\n", "FORMATTING REQUIREMENTS:",
             "\n", "1. Use clear hierarchical structure with headers",
             "\n", "2. Include relevant examples and explanations",
             "\n", "3. For weak spots, provide extra detail and clarity",
             "\n", "4. Use formatting markers: **bold** for emphasis, *italic* for terms",
             "\n", "5. Number important points and use bullet points for lists",
             "\n", "6. Include a summary section at the end",
             "\n", "7. Add \"Key Takeaways\" for each major topic",
             "\n", "8. If relevant, include formulas, definitions, and important dates",
             "\n", LengthHeading,
             "\n", "- The response must fit within a maximum of 2 pages in a standard PDF (600-800 words total).",
             "\n", "- Be concise and avoid unnecessary repetition.",
             "\n", "- Prioritize clarity and weak spot coverage over breadth.",
             "\n", "- Do not expand on all content; only cover ">>
        \o weak_spots_text
        \o <<" as specified.",
             "\n", "Remember: focus only on the weak spots, and compress explanations so the entire material fits within 2 PDF pages.",
             "\n">>

\* Inputs of the composer
SampleDeck ==
    <<<<Shape(TRUE, TRUE, <<<<"I", "n", "t", "r", "o">>>>)>>,
      <<Shape(TRUE, FALSE, <<<<"P", "o", "i", "n", "t", " ", "A">>, <<"P", "o", "i", "n", "t", " ", "B">>>>)>>>>

SpotTexts == {<<>>, <<" ">>, <<"A">>, <<" ", "B">>}

\* the requests with at most n weak spots
Requests(n) ==
    [ppt_content : {extract_text_with_structure(SampleDeck)},
     weak_spots : SeqsUpTo(SpotTexts, n),
     material_type : MaterialKeys \cup {"flashcards"},
     difficulty_level : {"beginner", "intermediate", "advanced", "expert"},
     additional_instructions : {"", "Use metric units"}]

InitCompose ==
    /\ request \in Requests(MaxSpots)
    /\ prompt = NoVal
    /\ IdleRender /\ IdleExtract /\ IdleEndpoint

Compose ==
    /\ prompt = NoVal
    /\ prompt' = ComposePrompt(request.ppt_content, request.weak_spots, request.material_type,
                               request.difficulty_level, request.additional_instructions)
    /\ UNCHANGED <<request, renderVars, extractVars, endpointVars>>

NextCompose == Compose

SpecCompose == InitCompose /\ [][NextCompose]_vars

-----------------------------------------------------------------------------
(* generate_study_material_endpoint (lines 443-507), concurrent calls *)

NumCalls == 2     \* concurrent calls
MaxClock == 1     \* seconds the wall clock advances

Calls == 1..NumCalls
FileNames == 0..MaxClock

\* str.split(','), cur is the piece being read
RECURSIVE SplitComma(_, _)
SplitComma(s, cur) ==
    IF s = <<>> THEN <<cur>>
    ELSE IF Head(s) = "," THEN <<cur>> \o SplitComma(Tail(s), <<>>)
    ELSE SplitComma(Tail(s), Append(cur, Head(s)))

\* line 470
WeakSpotsList(weak_spots) ==
    IF weak_spots # <<>> THEN StrippedParagraphs(SplitComma(weak_spots, <<>>)) ELSE <<>>

\* a variant that lets every deck through
IsEmptyDeckNever(ppt_content) == FALSE

\* line 466: not ppt_content['full_text'].strip()
IsEmptyDeck(ppt_content) == Strip(ppt_content.full_text) = <<>>

\* line 485: the strftime('%Y%m%d_%H%M%S') name, one name per second of the clock
OutputFilename(now) == now

\* lines 487-492
Metadata(material_type, weak_spots_list, difficulty_level) ==
    [date |-> "DATE",
     material_type |-> MetadataMaterialType(material_type),
     weak_spots |-> weak_spots_list,
     difficulty |-> difficulty_level]

\* the form of a request
BlankDeck == <<<<Shape(FALSE, FALSE, <<>>)>>, <<Shape(TRUE, FALSE, <<<<" ">>>>)>>>>
Corrupt == <<"corrupt">>

Form(pptx, file, material_type) ==
    [pptx |-> pptx, file |-> file, weak_spots |-> <<" ", "A", ",", " ", ",", "B">>,
     material_type |-> material_type, difficulty_level |-> "beginner",
     additional_instructions |-> ""]

Forms ==
    {Form(FALSE, SampleDeck, "pointwise"),
     Form(TRUE, Corrupt, "pointwise"),
     Form(TRUE, BlankDeck, "pointwise"),
     Form(TRUE, SampleDeck, "pointwise"),
     Form(TRUE, SampleDeck, "flashcards")}

\* what the external model may answer
GenTexts == {<<LineTitle, LineDash>>}

\* what ReportLab may do during one call of create_professional_pdf
NoFaults == [raises |-> {}, raises2 |-> {}, build |-> FALSE, skip |-> {}, plain |-> FALSE]
FaultSets ==
    {NoFaults,
     [NoFaults EXCEPT !.raises = {1}],
     [NoFaults EXCEPT !.build = TRUE, !.plain = TRUE]}

\* A call: its form, the handler's locals while it runs (ppt_content,
\* weak_spots_list, prompt), and what is left of it once the handler has returned
\* or raised: the text it rendered, the file it named, the metadata and the
\* document it wrote, the response's status and detail, and the body sent.
NewCall ==
    [form |-> NoVal, ppt_content |-> NoVal, weak_spots_list |-> <<>>, prompt |-> NoVal,
     generated_content |-> NoVal, output_filename |-> -1, metadata |-> NoVal,
     written |-> NoDoc, status |-> 0, detail |-> "", body |-> NoDoc]

\* the handler's frame is gone
Returned(locals) ==
    [locals EXCEPT !.ppt_content = NoVal, !.weak_spots_list = <<>>, !.prompt = NoVal]

Init ==
    /\ pc = [c \in Calls |-> "request"]
    /\ call = [c \in Calls |-> NewCall]
    /\ hist = [c \in Calls |-> <<>>]
    /\ clock = 0
    /\ files = [f \in FileNames |-> NoDoc]
    /\ GOOGLE_API_KEY \in BOOLEAN
    /\ IdleRender /\ IdleExtract /\ IdleCompose

\* raise HTTPException(status_code, detail): the call is over, with no document
Fail(c, locals, steps, code, detail) ==
    /\ pc' = [pc EXCEPT ![c] = "failed"]
    /\ call' = [call EXCEPT ![c] = [Returned(locals) EXCEPT !.status = code, !.detail = detail]]
    /\ hist' = [hist EXCEPT ![c] = @ \o steps]

\* lines 455-460: the request arrives, the file type is checked, the read is awaited
Validate(c) ==
    /\ pc[c] = "request"
    /\ \E form \in Forms :
          LET locals == [call[c] EXCEPT !.form = form]
          IN  IF ~form.pptx
              THEN Fail(c, locals, <<>>, 400, "Please upload a .pptx file")
              ELSE /\ pc' = [pc EXCEPT ![c] = "read"]
                   /\ call' = [call EXCEPT ![c] = locals]
                   /\ hist' = hist
    /\ UNCHANGED <<clock, files, GOOGLE_API_KEY>>
    /\ UNCHANGED <<renderVars, extractVars, composeVars>>

\* lines 461-480 with 137-210: extraction, the empty-deck check, the weak spots,
\* the prompt, and the call of the model, up to the await of its answer
ExtractAndInvoke(c) ==
    /\ pc[c] = "read"
    /\ LET form == call[c].form IN
       IF form.file = Corrupt
       THEN Fail(c, call[c], <<"extract", "extract_failed">>, 500, "Failed to process PowerPoint")
       ELSE LET ppt_content == extract_text_with_structure(form.file)
                weak_spots_list == WeakSpotsList(form.weak_spots)
                l1 == [call[c] EXCEPT !.ppt_content = ppt_content]
                l2 == [l1 EXCEPT !.weak_spots_list = weak_spots_list]
                l3 == [l2 EXCEPT !.prompt =
                          ComposePrompt(ppt_content, weak_spots_list, form.material_type,
                                        form.difficulty_level, form.additional_instructions)]
            IN  IF IsEmptyDeck(ppt_content)
                THEN Fail(c, l1, <<"extract", "empty_deck">>, 400, "PowerPoint appears to be empty")
                ELSE IF ~GOOGLE_API_KEY
                THEN Fail(c, l2, <<"extract", "generate_failed">>, 500, "Generation failed")
                ELSE /\ pc' = [pc EXCEPT ![c] = "awaiting"]
                     /\ call' = [call EXCEPT ![c] = l3]
                     /\ hist' = [hist EXCEPT ![c] = @ \o <<"extract", "compose", "invoke">>]
    /\ UNCHANGED <<clock, files, GOOGLE_API_KEY>>
    /\ UNCHANGED <<renderVars, extractVars, composeVars>>

\* lines 211-213 and 481-507: the model's answer arrives; the document is rendered
\* into the file named after the current second and a FileResponse on it is returned
ResumeAndRender(c) ==
    /\ pc[c] = "awaiting"
    /\ \/ Fail(c, call[c], <<"generate_failed">>, 500, "Generation failed") /\ files' = files
       \/ \E text \in GenTexts, faults \in FaultSets :
             LET form == call[c].form
                 output_filename == OutputFilename(clock)
                 metadata_ == Metadata(form.material_type, call[c].weak_spots_list,
                                       form.difficulty_level)
                 res == create_professional_pdf(text, metadata_, faults)
                 l1 == [call[c] EXCEPT !.generated_content = text,
                                       !.output_filename = output_filename,
                                       !.metadata = metadata_]
             IN  IF res.raised
                 THEN /\ Fail(c, call[c], <<"generated", "render", "render_failed">>, 500,
                              "PDF creation failed")
                      /\ files' = files
                 ELSE /\ files' = [files EXCEPT ![output_filename] = res.doc]
                      /\ pc' = [pc EXCEPT ![c] = "responding"]
                      /\ call' = [call EXCEPT ![c] =
                                      [Returned(l1) EXCEPT !.written = res.doc, !.status = 200]]
                      /\ hist' = [hist EXCEPT ![c] = @ \o <<"generated", "render", "return">>]
    /\ UNCHANGED <<clock, GOOGLE_API_KEY>>
    /\ UNCHANGED <<renderVars, extractVars, composeVars>>

\* lines 500-507: the FileResponse is sent: the file at output_filename is read
SendFile(c) ==
    /\ pc[c] = "responding"
    /\ pc' = [pc EXCEPT ![c] = "done"]
    /\ call' = [call EXCEPT ![c].body = files[call[c].output_filename]]
    /\ hist' = [hist EXCEPT ![c] = Append(@, "sent")]
    /\ UNCHANGED <<clock, files, GOOGLE_API_KEY>>
    /\ UNCHANGED <<renderVars, extractVars, composeVars>>

\* a second of wall-clock time passes
Tick ==
    /\ clock < MaxClock
    /\ clock' = clock + 1
    /\ UNCHANGED <<pc, call, files, hist, GOOGLE_API_KEY>>
    /\ UNCHANGED <<renderVars, extractVars, composeVars>>

Next ==
    \/ \E c \in Calls : Validate(c)
    \/ \E c \in Calls : ExtractAndInvoke(c)
    \/ \E c \in Calls : ResumeAndRender(c)
    \/ \E c \in Calls : SendFile(c)
    \/ Tick

Spec == Init /\ [][Next]_vars

-----------------------------------------------------------------------------
(* Properties of the renderer (SpecRender) *)

\* the blocks the loop has appended so far: the story after its three head
\* flowables, without the list-break spacers
IsBlock(f) == f.kind # "Spacer"
LoopBlocks == SelectSeq(SubSeq(story, Len(InitialStory(metadata)) + 1, Len(story)), IsBlock)

\* the lines the loop has passed that are non-blank after trimming, trimmed
RECURSIVE TrimmedNonBlank(_)
TrimmedNonBlank(ls) ==
    IF ls = <<>> THEN <<>>
    ELSE (IF Strip(Head(ls)) # <<>> THEN <<Strip(Head(ls))>> ELSE <<>>)
         \o TrimmedNonBlank(Tail(ls))

PassedLines == TrimmedNonBlank(SubSeq(content, 1, idx - 1))

\* The ordered rule table of the classification: rule r applies to a line.
RuleApplies(r, l) ==
    CASE r = 1 -> Len(l) >= 3 /\ l[1] = "#" /\ l[2] = "#" /\ l[3] = "#"
      [] r = 2 -> Len(l) >= 2 /\ l[1] = "#" /\ l[2] = "#"
      [] r = 3 -> l[1] = "#"
      [] r = 4 -> \/ Contains(LowerStr(l), KeyTakeaway)
                  \/ Contains(LowerStr(l), ImportantColon)
      [] r = 5 -> \/ l[1] \in {BulletChar, "-", ArrowChar}
                  \/ (Len(l) >= 2 /\ l[1] = "*" /\ l[2] = " ")
      [] r = 6 -> Len(l) >= 3 /\ l[1] \in Digits /\ l[2] = "."
      [] OTHER -> TRUE

RuleKind ==
    <<"SubHeader", "SectionHeader", "DocumentTitle", "KeyPoint", "BulletItem",
      "NumberedItem", "Paragraph">>

FirstRule(l) == CHOOSE r \in 1..7 : RuleApplies(r, l) /\ \A q \in 1..(r - 1) : ~RuleApplies(q, l)

\* C5: while the loop runs without an error, the lines passed so far that are
\* non-blank after trimming have each produced exactly one block, in order, and the
\* block's kind is that of the first rule that applies to the line, in the order
\* '###', '##', '#', key-point, bullet, numbered, paragraph; so "1. Do the thing" is
\* a NumberedItem, "* floating note" a BulletItem and "*emphasis*" a Paragraph.
C5_FirstMatchingRule ==
    rpc = "scan" =>
        /\ Len(LoopBlocks) = Len(PassedLines)
        /\ \A j \in 1..Len(PassedLines) :
              LoopBlocks[j].kind = RuleKind[FirstRule(PassedLines[j])]
        /\ \A j \in 1..Len(PassedLines) :
              /\ PassedLines[j] = LineNumbered   => LoopBlocks[j].kind = "NumberedItem"
              /\ PassedLines[j] = LineStarBullet => LoopBlocks[j].kind = "BulletItem"
              /\ PassedLines[j] = LineEmphasis   => LoopBlocks[j].kind = "Paragraph"

\* C5 witness: the loop has passed "*emphasis*" after a list item and made it a Paragraph
C5_Witness ==
    /\ rpc = "scan" /\ idx = 3
    /\ content[1] = LineDash /\ content[2] = LineEmphasis
    /\ LoopBlocks[1].kind = "BulletItem" /\ LoopBlocks[2].kind = "Paragraph"

\* the numbered pattern as the specification words it: one or more digits, '.', space
RECURSIVE DigitsLen(_, _)
DigitsLen(l, i) == IF i <= Len(l) /\ l[i] \in Digits THEN 1 + DigitsLen(l, i + 1) ELSE 0

DigitsDotSpace(l) ==
    LET n == DigitsLen(l, 1)
    IN  n >= 1 /\ Len(l) >= n + 2 /\ l[n + 1] = "." /\ l[n + 2] = " "

\* C6 (as claimed): a passed line that is no header, key-point or bullet is a
\* NumberedItem exactly when it begins with one or more digits, '.', and a space,
\* and is a Paragraph otherwise.
C6_NumberedIffDigitsDotSpace ==
    rpc = "scan" =>
        \A j \in 1..Len(PassedLines) :
            (j <= Len(LoopBlocks) /\ FirstRule(PassedLines[j]) >= 6) =>
                LoopBlocks[j].kind =
                    (IF DigitsDotSpace(PassedLines[j]) THEN "NumberedItem" ELSE "Paragraph")

\* C2 (as claimed): an error raised while a block is constructed from a line never
\* leaves create_professional_pdf; only a failure of the fallback build does.
C2_BlockErrorsRecovered == rpc # "raised_block"

\* C3 (as claimed): every page of every document the renderer produces carries the
\* footer "Page X of Y" with X the page's number and Y the number of pages.
C3_FooterOnEveryPage ==
    rpc = "done" =>
        \A i \in 1..Len(doc.pages) : doc.pages[i].footer = <<i, Len(doc.pages)>>

-----------------------------------------------------------------------------
(* Properties of the extractor (SpecExtract) *)

\* the slides that carry a title or content, by slide number
KeptNumbers ==
    {n \in 1..Len(deck) :
        LET st == ExtractSlide(deck[n], n) IN st.title # <<>> \/ st.content # <<>>}

\* C10: total_slides is the number of slides of the deck and at least the number
\* of retained slides; the retained slides are in source order under their
\* 1-indexed slide numbers; a slide is retained exactly when its title or its
\* content is non-empty; a deck whose slides are all blank (no title, no content)
\* gives slides = [] and full_text = "".
C10_RetainedSlides ==
    extraction # NoVal =>
        LET out == extraction.slides
        IN  /\ extraction.total_slides = Len(deck)
            /\ extraction.total_slides >= Len(out)
            /\ \A i \in 1..Len(out) : out[i].slide_number \in 1..Len(deck)
            /\ \A i \in 1..Len(out), j \in 1..Len(out) :
                  i < j => out[i].slide_number < out[j].slide_number
            /\ {out[i].slide_number : i \in 1..Len(out)} = KeptNumbers
            /\ \A i \in 1..Len(out) :
                  out[i] = ExtractSlide(deck[out[i].slide_number], out[i].slide_number)
            /\ KeptNumbers = {} => (out = <<>> /\ extraction.full_text = <<>>)

\* C10 witness: a two-slide deck whose first slide is blank and dropped and whose
\* second slide is kept under its source number 2
C10_Witness ==
    /\ extraction # NoVal
    /\ Len(deck) = 2
    /\ extraction.total_slides = 2
    /\ Len(extraction.slides) = 1
    /\ extraction.slides[1].slide_number = 2
    /\ extraction.slides[1].title = <<>>
    /\ extraction.slides[1].content # <<>>

\* The title and content of a slide as the specification words them: the title is
\* taken from the slide's title placeholder or from the first text-bearing element
\* of slide 1; every other text-bearing element adds its trimmed non-blank
\* paragraphs to the content.
FirstTextShape(slide) ==
    IF \E i \in 1..Len(slide) : slide[i].has_text_frame
    THEN CHOOSE i \in 1..Len(slide) :
            slide[i].has_text_frame /\ \A j \in 1..(i - 1) : ~slide[j].has_text_frame
    ELSE 0

IsTitleElement(slide, n, i) ==
    slide[i].has_text_frame /\ (slide[i].is_title \/ (n = 1 /\ i = FirstTextShape(slide)))

RECURSIVE ClaimedSlide(_, _, _, _)
ClaimedSlide(slide, n, i, st) ==
    IF i > Len(slide) THEN st
    ELSE IF ~slide[i].has_text_frame THEN ClaimedSlide(slide, n, i + 1, st)
    ELSE IF IsTitleElement(slide, n, i)
         THEN ClaimedSlide(slide, n, i + 1, [st EXCEPT !.title = ShapeText(slide[i])])
    ELSE ClaimedSlide(slide, n, i + 1,
                      [st EXCEPT !.content = @ \o StrippedParagraphs(slide[i].paragraphs)])

\* C8 (as claimed): every retained slide record has the title and the content
\* that rule gives.
C8_TitleOnlyFirstOrPlaceholder ==
    extraction # NoVal =>
        \A i \in 1..Len(extraction.slides) :
            LET n == extraction.slides[i].slide_number
            IN  extraction.slides[i] = ClaimedSlide(deck[n], n, 1, SlideText(n, <<>>, <<>>))

-----------------------------------------------------------------------------
(* Properties of the prompt composer (SpecCompose) *)

Composed == prompt # NoVal

HasPiece(p, piece) == \E i \in 1..Len(p) : p[i] = piece

\* C7 (as claimed): the prompt holds the weak-spots block exactly when some entry
\* of weak_spots is non-blank after trimming, and always holds the length block.
C7_WeakBlockIffNonBlankEntry ==
    Composed =>
        /\ HasPiece(prompt, WeakSpotsHeading)
              <=> (\E i \in 1..Len(request.weak_spots) : Strip(request.weak_spots[i]) # <<>>)
        /\ HasPiece(prompt, LengthHeading)

-----------------------------------------------------------------------------
(* Properties of the endpoint (Spec) *)

StepOrder == <<"extract", "compose", "invoke", "generated", "render", "return", "sent">>
Failures  == {"extract_failed", "empty_deck", "generate_failed", "render_failed"}

IsStep(e) == e \notin Failures
IsPrefix(a, b) == Len(a) <= Len(b) /\ SubSeq(b, 1, Len(a)) = a
Happened(c, e) == \E i \in 1..Len(hist[c]) : hist[c][i] = e

\* C1: in every call the steps taken are an initial part of the order extract,
\* compose, invoke the model, model answered, render, return, send, each at most
\* once; the model is invoked only with an extraction whose full_text is
\* non-blank; the renderer is invoked only after the model answered with a text;
\* a failure of extraction, of the empty-deck check, of generation or of rendering
\* is the call's last step, ends it in a failure, and no document is returned.
C1_PipelineOrder ==
    \A c \in Calls :
        /\ IsPrefix(SelectSeq(hist[c], IsStep), StepOrder)
        /\ Happened(c, "invoke") =>
              /\ call[c].form.pptx /\ call[c].form.file \notin {Corrupt, BlankDeck}
        /\ pc[c] = "awaiting" =>
              /\ call[c].ppt_content # NoVal
              /\ Strip(call[c].ppt_content.full_text) # <<>>
        /\ Happened(c, "render") => Happened(c, "generated")
        /\ Happened(c, "return") => call[c].generated_content \in GenTexts
        /\ \A i \in 1..Len(hist[c]) :
              hist[c][i] \in Failures => (i = Len(hist[c]) /\ pc[c] = "failed")
        /\ pc[c] = "failed" =>
              /\ call[c].body = NoDoc
              /\ call[c].status \in {400, 500}
              /\ ~Happened(c, "return") /\ ~Happened(c, "sent")
        /\ call[c].body # NoDoc => hist[c] = StepOrder

\* C1 witness: one call has gone through every step and sent its document while
\* another has failed in the renderer
C1_Witness ==
    \E c \in Calls, d \in Calls :
        /\ pc[c] = "done" /\ hist[c] = StepOrder /\ call[c].body # NoDoc
        /\ pc[d] = "failed" /\ Happened(d, "render_failed")

\* C4 (as claimed): the document sent to a call is the one that call's own render
\* wrote.
C4_OwnDocumentReturned ==
    \A c \in Calls : pc[c] = "done" => call[c].body = call[c].written

\* C9 (as claimed): for a material_type outside the catalog, the prompt carries the
\* "comprehensive" display name and style directive, and so does the material type
\* of the rendered document's metadata.
C9_UnknownKeyIsComprehensive ==
    \A c \in Calls :
        (call[c].form # NoVal /\ call[c].form.material_type \notin MaterialKeys) =>
            /\ call[c].prompt # NoVal =>
                  /\ HasPiece(call[c].prompt, MATERIAL_TYPES("comprehensive").name)
                  /\ HasPiece(call[c].prompt, MATERIAL_TYPES("comprehensive").prompt_modifier)
            /\ call[c].metadata # NoVal =>
                  call[c].metadata.material_type = MATERIAL_TYPES("comprehensive").name

-----------------------------------------------------------------------------
(* Properties of the fallback rendering (SpecFallback) *)

\* the flowables of the written document, page after page
RECURSIVE PageFlow(_, _)
PageFlow(pages, i) ==
    IF i > Len(pages) THEN <<>> ELSE pages[i].body \o PageFlow(pages, i + 1)

DocFlow == PageFlow(doc.pages, 1)

IsPara(f) == f.kind = "Paragraph"
FallbackParagraphs == SelectSeq(DocFlow, IsPara)

HasMarkup(text) == \E i \in 1..Len(text) : text[i] \in {"#", "*"}
NoMarkupInDoc == \A i \in 1..Len(DocFlow) : ~HasMarkup(DocFlow[i].text)

FallbackWritten == rpc = "done" /\ doc.kind = "fallback"

\* the blocks of the generated text as the claim counts them: the maximal runs of
\* lines that are non-blank after trimming
NumBlocks(ls) ==
    Cardinality({i \in 1..Len(ls) :
                    /\ Strip(ls[i]) # <<>>
                    /\ (i = 1 \/ Strip(ls[i - 1]) = <<>>)})

Unmarked(l) == RemoveChar(RemoveChar(l, "*"), "#")

\* the runs of lines between the lines that are empty once unmarked, each run
\* joined by newlines; cur is the run being read, open whether it has a line
RECURSIVE UnmarkedRuns(_, _, _, _)
UnmarkedRuns(ls, i, cur, open) ==
    IF i > Len(ls) THEN (IF open THEN <<cur>> ELSE <<>>)
    ELSE IF Unmarked(ls[i]) = <<>>
         THEN (IF open THEN <<cur>> ELSE <<>>) \o UnmarkedRuns(ls, i + 1, <<>>, FALSE)
    ELSE UnmarkedRuns(ls, i + 1,
                      IF open THEN cur \o <<"\n">> \o Unmarked(ls[i]) ELSE Unmarked(ls[i]),
                      TRUE)

IsNonBlank(t) == Strip(t) # <<>>
ExpectedParas(ls) ==
    LET runs == SelectSeq(UnmarkedRuns(ls, 1, <<>>, FALSE), IsNonBlank)
    IN  [j \in 1..Len(runs) |-> escape(Strip(runs[j]))]

\* a is b with some elements left out
RECURSIVE IsSubseq(_, _)
IsSubseq(a, b) ==
    IF a = <<>> THEN TRUE
    ELSE IF b = <<>> THEN FALSE
    ELSE IF Head(a) = Head(b) THEN IsSubseq(Tail(a), Tail(b))
    ELSE IsSubseq(a, Tail(b))

ParaTexts == [j \in 1..Len(FallbackParagraphs) |-> FallbackParagraphs[j].text]

-----------------------------------------------------------------------------
(* Properties of the in_list flag (SpecList) *)

IsBlankLine(l) == Strip(l) = <<>>
IsItemLine(l) ==
    /\ ~IsBlankLine(l)
    /\ RuleKind[FirstRule(Strip(l))] \in {"BulletItem", "NumberedItem"}

IsListBreak(f) == f = Spacer("6")
IsItemBlock(f) == f.kind \in {"BulletItem", "NumberedItem"}

\* what the loop has appended to the story
LoopFlow == SubSeq(story, Len(InitialStory(metadata)) + 1, Len(story))

\* the lines passed so far that begin a run of blank lines, and those that are items
BlankRunStarts ==
    {i \in 1..(idx - 1) : IsBlankLine(content[i]) /\ (i = 1 \/ ~IsBlankLine(content[i - 1]))}
ItemsPassed == {i \in 1..(idx - 1) : IsItemLine(content[i])}

\* one step of the call, seen from the flag
ListStep ==
    IF rpc = "scan" /\ idx <= Len(content)
    THEN LET line == content[idx]
             emitted == /\ breaks' = breaks + 1
                        /\ story' = Append(story, Spacer("6"))
             silent  == /\ breaks' = breaks
                        /\ \/ story' = story
                           \/ /\ Len(story') = Len(story) + 1
                              /\ SubSeq(story', 1, Len(story)) = story
                              /\ ~IsListBreak(story'[Len(story')])
         IN  /\ (in_list' /\ ~in_list) => IsItemLine(line)
             /\ (in_list /\ ~in_list') => IsBlankLine(line)
             /\ IsBlankLine(line) => ~in_list'
             /\ IF IsBlankLine(line) /\ in_list THEN emitted ELSE silent
    ELSE /\ breaks' = breaks
         /\ in_list' = (IF rpc = "start" THEN FALSE ELSE in_list)

\* what follows for the story of the loop
ListBreaksSeparated ==
    rpc = "scan" =>
        /\ idx = 1 => ~in_list
        /\ breaks = Len(SelectSeq(LoopFlow, IsListBreak))
        /\ breaks <= Cardinality(BlankRunStarts)
        /\ breaks <= Cardinality(ItemsPassed)
        /\ \A j \in 1..Len(LoopFlow) :
              IsListBreak(LoopFlow[j]) =>
                  /\ \E k \in 1..(j - 1) : IsItemBlock(LoopFlow[k])
                  /\ \A i \in 1..(j - 1) :
                        IsListBreak(LoopFlow[i]) =>
                            \E k \in (i + 1)..(j - 1) : IsItemBlock(LoopFlow[k])

\* C12: in_list starts false, becomes true only on a BulletItem or NumberedItem
\* line and false only on a blank line, after which it is false; a list-break
\* spacer is appended exactly when a blank line is read while in_list is true.
\* So a run of blank lines adds at most one list-break, a blank line before any
\* list item adds none, and between two list-breaks of the story there is a
\* bullet or numbered item.
C12_ListFlag == [][ListStep]_vars /\ []ListBreaksSeparated

\* C12 witness: two list-breaks, one after a bullet and one after a numbered item,
\* the second from a whitespace-only line
C12_Witness ==
    /\ rpc = "scan" /\ idx = 5
    /\ content = <<ListDash, <<>>, ListNumbered, <<" ">>>>
    /\ breaks = 2 /\ ~in_list

====
